---- MODULE Spec2Model ----
(***************************************************************************)
(* Tetromino placement search of brutal_tetris_hacker.                     *)
(*                                                                         *)
(*   src/src/util.rs       Pos, Size                                       *)
(*   src/src/tetra.rs      shape catalog TETRAS, PlacedTetraInBoundaries   *)
(*   src/src/algorithm.rs  RecursionState: randomized bounded search with  *)
(*                         the lookup cache (Configuration::run)           *)
(*   src/src/main.rs       brute_force::RecursionState: exhaustive search  *)
(*                         (Configuration::brute_force)                    *)
(*                                                                         *)
(* The recursive function recursion() is modelled with an explicit frame   *)
(* sequence `frames`; one action covers the code executed between two      *)
(* call/return boundaries.  Sequences are 1-based here, so TETRAS[i] of    *)
(* the source is TETRAS[i+1] of this module.                               *)
(***************************************************************************)
EXTENDS Integers, Sequences, FiniteSets, TLC

VARIABLES
    cfg,                    \* Configuration {size, unavailable, results_limit}
    grid,                   \* RecursionState.grid : Pos -> Cell
    how_many_free,          \* RecursionState.how_many_free
    stack,                  \* RecursionState.stack
    results,                \* RecursionState.results
    positions_for_lookup,   \* RecursionState.positions_for_lookup
    initially_unavailable,  \* RecursionState.initially_unavailable
    results_limit,          \* RecursionState.results_limit (0 models None)
    acceptance_threshold,   \* RecursionState.acceptance_threshold
    min_free_cells,         \* brute_force::RecursionState.min_free_cells
    stats,                  \* the CollectStats sink: two counters
    frames,                 \* activation records of recursion(), root first
    ret,                    \* RecursionResult handed to the caller, not yet consumed
    pc,                     \* "config" | "panicked" | "new" | "recursion" | "returned" | "probe"
    probe                   \* inputs and result of a stand-alone in_boundaries call

vars == <<cfg, grid, how_many_free, stack, results, positions_for_lookup,
          initially_unavailable, results_limit, acceptance_threshold,
          min_free_cells, stats, frames, ret, pc, probe>>

engine_vars == <<cfg, grid, how_many_free, stack, results, positions_for_lookup,
                 initially_unavailable, results_limit, acceptance_threshold,
                 min_free_cells, stats, frames, ret, pc>>

---------------------------------------------------------------------------
(* Bounds of the model.                                                    *)

\* samples drawn per recursion() call by RandomTetras::finite_iter; the
\* source draws TETRAS_COUNT of them
MaxSlots == 2
\* largest grid extent handed to a stand-alone in_boundaries call
MaxDim == 5
\* largest anchor coordinate handed to a stand-alone in_boundaries call
MaxCoord == 4
\* recursion() calls followed of the exhaustive search of the 6x6 grid
MaxRecursions == 600
\* longest text, in characters, handed to the field parser (the texts of its
\* tests, which are longer, are handed to it as well)
MaxInput == 5
\* largest number of rows and of columns the editor grows the field to; the
\* source stops at usize::MAX
MaxEdit == 4
\* largest number of cells blocked in the editor at one time
MaxBlocked == 2

---------------------------------------------------------------------------
(* util.rs                                                                 *)

Pos(row, col) == [row |-> row, col |-> col]

Size(rows, cols) == [rows |-> rows, cols |-> cols]

add(self, rhs) == Pos(self.row + rhs.row, self.col + rhs.col)

None == <<>>

Some(x) == <<x>>

Range(s) == {s[i] : i \in DOMAIN s}

---------------------------------------------------------------------------
(* tetra.rs : the shape catalog                                            *)

TETRAS_COUNT == 19

CACHE_EACH_TETRAS == 4

\* const_tetra with `transform_pos(positions[0])` written twice: the fourth
\* offset repeats the first
const_tetra_repeating_first(positions, col_shift) ==
    LET max_const(a, b) == IF a > b THEN a ELSE b
        max_const_tuple(size, pos) ==
            <<max_const(size[1], pos[1] + 1), max_const(size[2], pos[2] + 1)>>
        size == max_const_tuple(
                    max_const_tuple(
                        max_const_tuple(
                            max_const_tuple(<<1, 1>>, positions[1]),
                            positions[2]),
                        positions[3]),
                    positions[4])
    IN  [positions |-> [i \in 1..4 |->
                            IF i = 4
                            THEN Pos(positions[1][1], positions[1][2])
                            ELSE Pos(positions[i][1], positions[i][2])],
         size      |-> Size(size[1], size[2]),
         col_shift |-> col_shift]

const_tetra(positions, col_shift) ==
    LET max_const(a, b) == IF a > b THEN a ELSE b
        max_const_tuple(size, pos) ==
            <<max_const(size[1], pos[1] + 1), max_const(size[2], pos[2] + 1)>>
        size == max_const_tuple(
                    max_const_tuple(
                        max_const_tuple(
                            max_const_tuple(<<1, 1>>, positions[1]),
                            positions[2]),
                        positions[3]),
                    positions[4])
    IN  [positions |-> [i \in 1..4 |-> Pos(positions[i][1], positions[i][2])],
         size      |-> Size(size[1], size[2]),
         col_shift |-> col_shift]

TETRAS == <<
    const_tetra(<< <<0, 0>>, <<0, 1>>, <<1, 0>>, <<1, 1>> >>, 0),
    const_tetra(<< <<0, 0>>, <<0, 1>>, <<0, 2>>, <<0, 3>> >>, 0),
    const_tetra(<< <<0, 0>>, <<1, 0>>, <<2, 0>>, <<3, 0>> >>, 0),
    const_tetra(<< <<0, 0>>, <<0, 1>>, <<0, 2>>, <<1, 1>> >>, 0),
    const_tetra(<< <<0, 0>>, <<1, 0>>, <<1, 1>>, <<2, 0>> >>, 0),
    const_tetra(<< <<0, 1>>, <<1, 0>>, <<1, 1>>, <<1, 2>> >>, 1),
    const_tetra(<< <<0, 1>>, <<1, 0>>, <<1, 1>>, <<2, 1>> >>, 1),
    const_tetra(<< <<0, 0>>, <<0, 1>>, <<0, 2>>, <<1, 0>> >>, 0),
    const_tetra(<< <<0, 0>>, <<1, 0>>, <<2, 0>>, <<2, 1>> >>, 0),
    const_tetra(<< <<0, 2>>, <<1, 0>>, <<1, 1>>, <<1, 2>> >>, 2),
    const_tetra(<< <<0, 0>>, <<0, 1>>, <<1, 1>>, <<2, 1>> >>, 0),
    const_tetra(<< <<0, 0>>, <<0, 1>>, <<0, 2>>, <<1, 2>> >>, 0),
    const_tetra(<< <<0, 1>>, <<1, 1>>, <<2, 0>>, <<2, 1>> >>, 1),
    const_tetra(<< <<0, 0>>, <<1, 0>>, <<1, 1>>, <<1, 2>> >>, 0),
    const_tetra(<< <<0, 0>>, <<0, 1>>, <<1, 0>>, <<2, 0>> >>, 0),
    const_tetra(<< <<0, 1>>, <<0, 2>>, <<1, 0>>, <<1, 1>> >>, 1),
    const_tetra(<< <<0, 0>>, <<1, 0>>, <<1, 1>>, <<2, 1>> >>, 0),
    const_tetra(<< <<0, 0>>, <<0, 1>>, <<1, 1>>, <<1, 2>> >>, 0),
    const_tetra(<< <<0, 1>>, <<1, 0>>, <<1, 1>>, <<2, 0>> >>, 1) >>

\* &TETRAS[1] and &TETRAS[6] of the source
I_HORIZONTAL == TETRAS[2]

T_LOOK_LEFT == TETRAS[7]

PlacedTetra(tetra, position) == [tetra |-> tetra, position |-> position]

static_tetras_iter == TETRAS

---------------------------------------------------------------------------
(* tetra.rs : PlacedTetraInBoundaries                                      *)

\* in_boundaries without its first test, `tetra_col_shift > position.col`
in_boundaries_ignoring_shift(placed, boundaries) ==
    LET tetra           == placed.tetra
        position        == placed.position
        tetra_size      == tetra.size
        tetra_col_shift == tetra.col_shift
    IN  IF \/ position.col + tetra_size.cols - tetra_col_shift > boundaries.cols
           \/ position.row + tetra_size.rows > boundaries.rows
        THEN None
        ELSE Some(placed)

\* in_boundaries with the width test not reduced by the column shift
in_boundaries_unshifted_width(placed, boundaries) ==
    LET tetra           == placed.tetra
        position        == placed.position
        tetra_size      == tetra.size
        tetra_col_shift == tetra.col_shift
    IN  IF \/ tetra_col_shift > position.col
           \/ position.col + tetra_size.cols > boundaries.cols
           \/ position.row + tetra_size.rows > boundaries.rows
        THEN None
        ELSE Some(placed)

in_boundaries(placed, boundaries) ==
    LET tetra           == placed.tetra
        position        == placed.position
        tetra_size      == tetra.size
        tetra_col_shift == tetra.col_shift
    IN  IF \/ tetra_col_shift > position.col
           \/ position.col + tetra_size.cols - tetra_col_shift > boundaries.cols
           \/ position.row + tetra_size.rows > boundaries.rows
        THEN None
        ELSE Some(placed)

\* iter_relative_to_place without `pos.col -= tetra.col_shift`
iter_relative_to_place_unshifted(self) ==
    LET tetra    == self.tetra
        relative == self.position
    IN  [i \in 1..4 |-> add(tetra.positions[i], relative)]

\* the four absolute positions, in the order of the tetra's offsets
iter_relative_to_place(self) ==
    LET tetra    == self.tetra
        relative == self.position
    IN  [i \in 1..4 |->
            LET pos == add(tetra.positions[i], relative)
            IN  [pos EXCEPT !.col = pos.col - tetra.col_shift]]

---------------------------------------------------------------------------
(* algorithm.rs : RecursionState of the randomized bounded search          *)

\* the square root rounded up: `.powf(0.5).ceil() as usize`
ISqrt_rounding_up(n) == CHOOSE t \in 0..n : t * t >= n /\ (t = 0 \/ (t - 1) * (t - 1) < n)

ISqrt(n) == CHOOSE t \in 0..n : t * t <= n /\ (t + 1) * (t + 1) > n

\* every grid position, row by row (the order of the `for row .. for col` loops)
RowMajor(size) ==
    [k \in 1..(size.rows * size.cols) |->
        Pos((k - 1) \div size.cols, (k - 1) % size.cols)]

PlacementResult(placement, free) == [placement |-> placement, free |-> free]

NewStats == [recursions |-> 0, results |-> 0]

recursions_inc(s) == [s EXCEPT !.recursions = @ + 1]

results_inc(s) == [s EXCEPT !.results = @ + 1]

\* the fields of the RecursionState built from a Configuration
with_configuration(c) ==
    LET rows == c.size.rows
        cols == c.size.cols
        g == [p \in Range(RowMajor(c.size)) |->
                IF p \in c.unavailable THEN "Unavailable" ELSE "Empty"]
        unavailable_count == Cardinality(c.unavailable)
        free == rows * cols - unavailable_count
        min_free == (cols * rows - unavailable_count) % 4
        all == RowMajor(c.size)
    IN  [grid |-> g,
         how_many_free |-> free,
         acceptance_threshold |-> ISqrt(free - min_free),
         stack |-> <<>>,
         results |-> <<>>,
         initially_unavailable |-> unavailable_count,
         positions_for_lookup |-> SelectSeq(all, LAMBDA p : g[p] = "Empty"),
         results_limit |-> c.results_limit]

\* find_any_fit_for that takes every cell that is not Occupied for free:
\* `!matches!(self.grid.pos(&pos), Cell::Occupied)`
find_any_fit_for_not_occupied(tetra) ==
    LET size == cfg.size
        fits(i) ==
            LET in_b == in_boundaries(PlacedTetra(tetra, positions_for_lookup[i]), size)
            IN  /\ in_b # None
                /\ \A k \in 1..4 : grid[iter_relative_to_place(in_b[1])[k]] # "Occupied"
        hits == {i \in DOMAIN positions_for_lookup : fits(i)}
    IN  IF hits = {}
        THEN None
        ELSE LET first == CHOOSE i \in hits : \A j \in hits : i <= j
             IN  Some(PlacedTetra(tetra, positions_for_lookup[first]))

\* find_any_fit_for with `.any(..)` in place of `.all(..)`
find_any_fit_for_any_empty(tetra) ==
    LET size == cfg.size
        fits(i) ==
            LET in_b == in_boundaries(PlacedTetra(tetra, positions_for_lookup[i]), size)
            IN  /\ in_b # None
                /\ \E k \in 1..4 : grid[iter_relative_to_place(in_b[1])[k]] = "Empty"
        hits == {i \in DOMAIN positions_for_lookup : fits(i)}
    IN  IF hits = {}
        THEN None
        ELSE LET first == CHOOSE i \in hits : \A j \in hits : i <= j
             IN  Some(PlacedTetra(tetra, positions_for_lookup[first]))

\* find_any_fit_for that searches the cache from its end: `.iter().rev()`
find_any_fit_for_from_the_end(tetra) ==
    LET size == cfg.size
        fits(i) ==
            LET in_b == in_boundaries(PlacedTetra(tetra, positions_for_lookup[i]), size)
            IN  /\ in_b # None
                /\ \A k \in 1..4 : grid[iter_relative_to_place(in_b[1])[k]] = "Empty"
        hits == {i \in DOMAIN positions_for_lookup : fits(i)}
    IN  IF hits = {}
        THEN None
        ELSE LET last == CHOOSE i \in hits : \A j \in hits : i >= j
             IN  Some(PlacedTetra(tetra, positions_for_lookup[last]))

\* find_any_fit_for that tests the anchor cell alone:
\* `matches!(self.grid.pos(pos), Cell::Empty)`
find_any_fit_for_testing_anchor(tetra) ==
    LET size == cfg.size
        fits(i) ==
            LET in_b == in_boundaries(PlacedTetra(tetra, positions_for_lookup[i]), size)
            IN  /\ in_b # None
                /\ grid[positions_for_lookup[i]] = "Empty"
        hits == {i \in DOMAIN positions_for_lookup : fits(i)}
    IN  IF hits = {}
        THEN None
        ELSE LET first == CHOOSE i \in hits : \A j \in hits : i <= j
             IN  Some(PlacedTetra(tetra, positions_for_lookup[first]))

find_any_fit_for(tetra) ==
    LET size == cfg.size
        fits(i) ==
            LET in_b == in_boundaries(PlacedTetra(tetra, positions_for_lookup[i]), size)
            IN  /\ in_b # None
                /\ \A k \in 1..4 : grid[iter_relative_to_place(in_b[1])[k]] = "Empty"
        hits == {i \in DOMAIN positions_for_lookup : fits(i)}
    IN  IF hits = {}
        THEN None
        ELSE LET first == CHOOSE i \in hits : \A j \in hits : i <= j
             IN  Some(PlacedTetra(tetra, positions_for_lookup[first]))

\* the re-scan loop without its `_ => Decision::Ignore`: a cell that is not
\* an excluded Occupied one is added, a blocked cell too
RECURSIVE rescan_admitting_blocked(_, _, _, _, _)
rescan_admitting_blocked(g, all, k, excluded, acc) ==
    IF k > Len(all)
    THEN acc
    ELSE IF g[all[k]] = "Occupied" /\ excluded > 0
         THEN rescan_admitting_blocked(g, all, k + 1, excluded - 1, acc)
         ELSE rescan_admitting_blocked(g, all, k + 1, excluded, Append(acc, all[k]))

\* the re-scan loop of update_lookup_cache, from the k-th position on
RECURSIVE rescan(_, _, _, _, _)
rescan(g, all, k, excluded, acc) ==
    IF k > Len(all)
    THEN acc
    ELSE IF g[all[k]] = "Empty"
         THEN rescan(g, all, k + 1, excluded, Append(acc, all[k]))
         ELSE IF g[all[k]] = "Occupied" /\ excluded > 0
              THEN rescan(g, all, k + 1, excluded - 1, acc)
              ELSE IF g[all[k]] = "Occupied"
                   THEN rescan(g, all, k + 1, excluded, Append(acc, all[k]))
                   ELSE rescan(g, all, k + 1, excluded, acc)

\* update_lookup_cache that re-scans only when the stack has grown four
\* placements beyond the cached count, without the `stacked < cached` test
update_lookup_cache_stale(g, st, lookup) ==
    LET stacked == Len(st)
        cached  == (cfg.size.cols * cfg.size.rows - initially_unavailable) - Len(lookup)
    IN  IF stacked >= cached /\ stacked - cached >= CACHE_EACH_TETRAS
        THEN rescan(g, RowMajor(cfg.size), 1,
                    (stacked - (stacked % CACHE_EACH_TETRAS)) * 4, <<>>)
        ELSE lookup

\* update_lookup_cache that excludes the cells of every stacked shape:
\* `let exclude = stacked * 4`, without the rounding down to four shapes
update_lookup_cache_excluding_all(g, st, lookup) ==
    LET stacked == Len(st)
        cached  == (cfg.size.cols * cfg.size.rows - initially_unavailable) - Len(lookup)
    IN  IF stacked < cached \/ stacked - cached >= CACHE_EACH_TETRAS
        THEN rescan(g, RowMajor(cfg.size), 1, stacked * 4, <<>>)
        ELSE lookup

\* update_lookup_cache that counts the cached cells in shapes:
\* `let cached = (.. - self.positions_for_lookup.len()) / 4`
update_lookup_cache_counting_tetras(g, st, lookup) ==
    LET stacked == Len(st)
        cached  == ((cfg.size.cols * cfg.size.rows - initially_unavailable) - Len(lookup)) \div 4
    IN  IF stacked < cached \/ stacked - cached >= CACHE_EACH_TETRAS
        THEN rescan(g, RowMajor(cfg.size), 1,
                    (stacked - (stacked % CACHE_EACH_TETRAS)) * 4, <<>>)
        ELSE lookup

\* positions_for_lookup after update_lookup_cache, for grid g and stack st
update_lookup_cache(g, st, lookup) ==
    LET stacked == Len(st)
        cached  == (cfg.size.cols * cfg.size.rows - initially_unavailable) - Len(lookup)
        how_many_exclude ==
            IF stacked < cached \/ stacked - cached >= CACHE_EACH_TETRAS
            THEN LET floor == stacked - (stacked % CACHE_EACH_TETRAS)
                     exclude == floor * 4
                 IN  Some(exclude)
            ELSE None
    IN  IF how_many_exclude # None
        THEN rescan(g, RowMajor(cfg.size), 1, how_many_exclude[1], <<>>)
        ELSE lookup

\* fill_and_push without `self.stack.push(tetra)`
fill_and_push_without_push(tetra) ==
    LET cells == iter_relative_to_place(tetra)
    IN  /\ grid' = [p \in DOMAIN grid |->
                        IF p \in Range(cells) THEN "Occupied" ELSE grid[p]]
        /\ how_many_free' = how_many_free - Len(cells)
        /\ stack' = stack
        /\ positions_for_lookup' = update_lookup_cache(grid', stack', positions_for_lookup)

fill_and_push(tetra) ==
    LET cells == iter_relative_to_place(tetra)
    IN  /\ grid' = [p \in DOMAIN grid |->
                        IF p \in Range(cells) THEN "Occupied" ELSE grid[p]]
        /\ how_many_free' = how_many_free - Len(cells)
        /\ stack' = Append(stack, tetra)
        /\ positions_for_lookup' = update_lookup_cache(grid', stack', positions_for_lookup)

\* pop_and_clear that reads the placement with `self.stack.last()` and leaves
\* it on the stack
pop_and_clear_keeping_stack ==
    LET placed_tetra == stack[Len(stack)]
        cells == iter_relative_to_place(placed_tetra)
    IN  /\ stack # <<>>
        /\ stack' = stack
        /\ grid' = [p \in DOMAIN grid |->
                        IF p \in Range(cells) THEN "Empty" ELSE grid[p]]
        /\ how_many_free' = how_many_free + Len(cells)
        /\ positions_for_lookup' = update_lookup_cache(grid', stack', positions_for_lookup)

\* pop_and_clear with `self.how_many_free += 1` after the loop, not in it
pop_and_clear_counting_once ==
    LET placed_tetra == stack[Len(stack)]
        cells == iter_relative_to_place(placed_tetra)
    IN  /\ stack # <<>>
        /\ stack' = SubSeq(stack, 1, Len(stack) - 1)
        /\ grid' = [p \in DOMAIN grid |->
                        IF p \in Range(cells) THEN "Empty" ELSE grid[p]]
        /\ how_many_free' = how_many_free + 1
        /\ positions_for_lookup' = update_lookup_cache(grid', stack', positions_for_lookup)

\* pop_and_clear without its closing `self.update_lookup_cache()`
pop_and_clear_leaving_cache ==
    LET placed_tetra == stack[Len(stack)]
        cells == iter_relative_to_place(placed_tetra)
    IN  /\ stack # <<>>
        /\ stack' = SubSeq(stack, 1, Len(stack) - 1)
        /\ grid' = [p \in DOMAIN grid |->
                        IF p \in Range(cells) THEN "Empty" ELSE grid[p]]
        /\ how_many_free' = how_many_free + Len(cells)
        /\ positions_for_lookup' = positions_for_lookup

pop_and_clear ==
    LET placed_tetra == stack[Len(stack)]
        cells == iter_relative_to_place(placed_tetra)
    IN  /\ stack # <<>>
        /\ stack' = SubSeq(stack, 1, Len(stack) - 1)
        /\ grid' = [p \in DOMAIN grid |->
                        IF p \in Range(cells) THEN "Empty" ELSE grid[p]]
        /\ how_many_free' = how_many_free + Len(cells)
        /\ positions_for_lookup' = update_lookup_cache(grid', stack', positions_for_lookup)

\* the cap test with `>` in place of `==`
limit_reached_when_exceeded(res, limit) == limit # 0 /\ Len(res) > limit

\* `if let Some(limit) = self.results_limit { if self.results.len() == limit.get() {..} }`
limit_reached(res, limit) == limit # 0 /\ Len(res) = limit

NewFrame == [iter |-> MaxSlots, was_any_fit |-> FALSE]

Top == frames[Len(frames)]

PopFrame == SubSeq(frames, 1, Len(frames) - 1)

\* Configuration::run : the state is built, recursion() is entered
run ==
    /\ pc = "new"
    /\ pc' = "recursion"
    /\ frames' = <<NewFrame>>
    /\ stats' = recursions_inc(stats)
    /\ UNCHANGED <<cfg, grid, how_many_free, stack, results, positions_for_lookup,
                   initially_unavailable, results_limit, acceptance_threshold,
                   min_free_cells, ret, probe>>

\* one turn of a loop over an endless stream of samples, which never runs
\* out of slots: `for tetra in std::iter::repeat_with(|| sample())`
recursion_loop_unbounded(tetra) ==
    /\ pc = "recursion" /\ ret = "None" /\ frames # <<>>
    /\ Top.iter > 0
    /\ LET fit == find_any_fit_for(tetra)
       IN  IF fit # None
           THEN /\ fill_and_push(fit[1])
                /\ frames' = Append(
                        [frames EXCEPT ![Len(frames)] =
                            [iter |-> @.iter, was_any_fit |-> TRUE]],
                        NewFrame)
                /\ stats' = recursions_inc(stats)
           ELSE /\ frames' = frames
                /\ UNCHANGED <<grid, how_many_free, stack, positions_for_lookup, stats>>
    /\ UNCHANGED <<cfg, results, initially_unavailable, results_limit,
                   acceptance_threshold, min_free_cells, ret, pc, probe>>

\* one turn of `for tetra in self.random_tetras.finite_iter()`: the sample of
\* this slot is tetra; on a fit the shape is placed and recursion() is entered
recursion_loop(tetra) ==
    /\ pc = "recursion" /\ ret = "None" /\ frames # <<>>
    /\ Top.iter > 0
    /\ LET fit == find_any_fit_for(tetra)
       IN  IF fit # None
           THEN /\ fill_and_push(fit[1])
                /\ frames' = Append(
                        [frames EXCEPT ![Len(frames)] =
                            [iter |-> @.iter - 1, was_any_fit |-> TRUE]],
                        NewFrame)
                /\ stats' = recursions_inc(stats)
           ELSE /\ frames' = [frames EXCEPT ![Len(frames)].iter = @ - 1]
                /\ UNCHANGED <<grid, how_many_free, stack, positions_for_lookup, stats>>
    /\ UNCHANGED <<cfg, results, initially_unavailable, results_limit,
                   acceptance_threshold, min_free_cells, ret, pc, probe>>

\* the code after the loop with `||` in place of `&&` in the acceptance test
recursion_exit_accepting_either ==
    /\ pc = "recursion" /\ ret = "None" /\ frames # <<>>
    /\ Top.iter = 0
    /\ LET accept == ~Top.was_any_fit \/ how_many_free < acceptance_threshold
       IN  /\ results' = IF accept
                         THEN Append(results, PlacementResult(stack, 0))
                         ELSE results
           /\ stats' = IF accept THEN results_inc(stats) ELSE stats
           /\ ret' = IF accept /\ limit_reached(results', results_limit)
                     THEN "Halt"
                     ELSE "Continue"
    /\ frames' = PopFrame
    /\ pc' = IF Len(frames) = 1 THEN "returned" ELSE pc
    /\ UNCHANGED <<cfg, grid, how_many_free, stack, positions_for_lookup,
                   initially_unavailable, results_limit, acceptance_threshold,
                   min_free_cells, probe>>

\* the code after the loop: acceptance, the result cap, the return
recursion_exit ==
    /\ pc = "recursion" /\ ret = "None" /\ frames # <<>>
    /\ Top.iter = 0
    /\ LET accept == ~Top.was_any_fit /\ how_many_free < acceptance_threshold
       IN  /\ results' = IF accept
                         THEN Append(results, PlacementResult(stack, 0))
                         ELSE results
           /\ stats' = IF accept THEN results_inc(stats) ELSE stats
           /\ ret' = IF accept /\ limit_reached(results', results_limit)
                     THEN "Halt"
                     ELSE "Continue"
    /\ frames' = PopFrame
    /\ pc' = IF Len(frames) = 1 THEN "returned" ELSE pc
    /\ UNCHANGED <<cfg, grid, how_many_free, stack, positions_for_lookup,
                   initially_unavailable, results_limit, acceptance_threshold,
                   min_free_cells, probe>>

\* a caller that goes on to its next sample without self.pop_and_clear()
recursion_continue_skipping_undo ==
    /\ pc = "recursion" /\ ret = "Continue" /\ frames # <<>>
    /\ ret' = "None"
    /\ UNCHANGED <<cfg, grid, how_many_free, stack, positions_for_lookup, results,
                   initially_unavailable, results_limit, acceptance_threshold,
                   min_free_cells, stats, frames, pc, probe>>

\* a caller whose recorded placements are views of the live stack, not
\* clones: clearing its shape shows in every result
recursion_continue_with_views ==
    /\ pc = "recursion" /\ ret = "Continue" /\ frames # <<>>
    /\ pop_and_clear
    /\ ret' = "None"
    /\ results' = [i \in DOMAIN results |-> PlacementResult(stack', results[i].free)]
    /\ UNCHANGED <<cfg, initially_unavailable, results_limit,
                   acceptance_threshold, min_free_cells, stats, frames, pc, probe>>

\* `RecursionResult::Continue => {}` and then self.pop_and_clear()
recursion_continue ==
    /\ pc = "recursion" /\ ret = "Continue" /\ frames # <<>>
    /\ pop_and_clear
    /\ ret' = "None"
    /\ UNCHANGED <<cfg, results, initially_unavailable, results_limit,
                   acceptance_threshold, min_free_cells, stats, frames, pc, probe>>

\* a caller that treats Halt as Continue: it clears its shape and goes on
recursion_halt_ignored ==
    /\ pc = "recursion" /\ ret = "Halt" /\ frames # <<>>
    /\ pop_and_clear
    /\ ret' = "None"
    /\ UNCHANGED <<cfg, results, initially_unavailable, results_limit,
                   acceptance_threshold, min_free_cells, stats, frames, pc, probe>>

\* a caller that clears its shape before it hands Halt on:
\* `x @ RecursionResult::Halt => { self.pop_and_clear(); return x }`
recursion_halt_unwinding ==
    /\ pc = "recursion" /\ ret = "Halt" /\ frames # <<>>
    /\ pop_and_clear
    /\ frames' = PopFrame
    /\ pc' = IF Len(frames) = 1 THEN "returned" ELSE pc
    /\ UNCHANGED <<cfg, results, initially_unavailable, results_limit,
                   acceptance_threshold, min_free_cells, stats, ret, probe>>

\* `x @ RecursionResult::Halt => return x`
recursion_halt ==
    /\ pc = "recursion" /\ ret = "Halt" /\ frames # <<>>
    /\ frames' = PopFrame
    /\ pc' = IF Len(frames) = 1 THEN "returned" ELSE pc
    /\ UNCHANGED <<cfg, grid, how_many_free, stack, results, positions_for_lookup,
                   initially_unavailable, results_limit, acceptance_threshold,
                   min_free_cells, stats, ret, probe>>

Configuration(size, unavailable, limit) ==
    [size |-> size, unavailable |-> unavailable, results_limit |-> limit]

\* the configurations the randomized search is run on
Configs ==
    {Configuration(Size(2, 4), {}, l) : l \in 0..2}
        \cup {Configuration(Size(2, 3), {Pos(0, 0)}, l) : l \in 0..1}
        \cup {Configuration(Size(1, 5), {}, 0), Configuration(Size(2, 2), {}, 1),
              Configuration(Size(3, 3), {Pos(1, 1)}, 0)}

NoProbe == [state |-> "none"]

StateOf(c) ==
    LET s == with_configuration(c)
    IN  /\ cfg = c
        /\ grid = s.grid
        /\ how_many_free = s.how_many_free
        /\ stack = s.stack
        /\ results = s.results
        /\ positions_for_lookup = s.positions_for_lookup
        /\ initially_unavailable = s.initially_unavailable
        /\ results_limit = s.results_limit
        /\ acceptance_threshold = s.acceptance_threshold
        /\ min_free_cells = 0
        /\ stats = NewStats
        /\ frames = <<>>
        /\ ret = "None"
        /\ pc = "new"
        /\ probe = NoProbe

Init == \E c \in Configs : StateOf(c)

Next ==
    \/ run
    \/ \E idx \in 1..TETRAS_COUNT : recursion_loop(TETRAS[idx])
    \/ recursion_exit
    \/ recursion_continue
    \/ recursion_halt

Spec == Init /\ [][Next]_vars

\* the run goes on as long as it has a step to take: nothing but the engine
\* itself runs, no step waits for anything
LiveConfigs ==
    {Configuration(Size(2, 3), {Pos(0, 0)}, l) : l \in 0..1}
        \cup {Configuration(Size(1, 5), {}, 0), Configuration(Size(2, 2), {}, 1),
              Configuration(Size(1, 8), {}, 0), Configuration(Size(1, 8), {}, 2)}

InitLive == \E c \in LiveConfigs : StateOf(c)

SpecLive == InitLive /\ [][Next]_vars /\ WF_vars(Next)

---------------------------------------------------------------------------
(* main.rs : brute_force::RecursionState, the exhaustive search.  Its tetro *)
(* module is the same code as tetra.rs (TETROS = TETRAS).                  *)

brute_force_Configuration(size, unavailable) ==
    [size |-> size, unavailable |-> unavailable]

\* the fields of the RecursionState built by brute_force::RecursionState::new
brute_force_new(size, unavailable) ==
    LET rows == size.rows
        cols == size.cols
        unavailable_count == Cardinality(unavailable)
    IN  [grid |-> [p \in Range(RowMajor(size)) |->
                      IF p \in unavailable THEN "Unavailable" ELSE "Empty"],
         how_many_free |-> rows * cols - unavailable_count,
         min_free_cells |-> (cols * rows - unavailable_count) % 4,
         stack |-> <<>>,
         results |-> <<>>,
         positions_for_lookup |-> RowMajor(size)]

\* main.rs 445-464 repeats algorithm.rs 206-225 token for token
brute_force_find_any_fit_for(tetro) == find_any_fit_for(tetro)

brute_force_fill_and_push(tetro) ==
    LET cells == iter_relative_to_place(tetro)
    IN  /\ grid' = [p \in DOMAIN grid |->
                        IF p \in Range(cells) THEN "Occupied" ELSE grid[p]]
        /\ how_many_free' = how_many_free - Len(cells)
        /\ stack' = Append(stack, tetro)

brute_force_pop_and_clear ==
    LET placed_tetro == stack[Len(stack)]
        cells == iter_relative_to_place(placed_tetro)
    IN  /\ stack # <<>>
        /\ stack' = SubSeq(stack, 1, Len(stack) - 1)
        /\ grid' = [p \in DOMAIN grid |->
                        IF p \in Range(cells) THEN "Empty" ELSE grid[p]]
        /\ how_many_free' = how_many_free + Len(cells)

\* the head of recursion(): the counters; the push of the PlacementResult is
\* commented out in the source, so `results` is left as it is
brute_force_recursion_head(s, free) ==
    LET counted == recursions_inc(s)
    IN  IF free = min_free_cells THEN results_inc(counted) ELSE counted

\* where `for tetro in static_tetros_iter()` goes on from catalog entry `from`:
\* the first entry from there on that fits somewhere, 0 if there is none
brute_force_next_fit(from) ==
    LET fitting == {t \in from..TETRAS_COUNT :
                        brute_force_find_any_fit_for(static_tetras_iter[t]) # None}
    IN  IF fitting = {}
        THEN 0
        ELSE CHOOSE t \in fitting : \A y \in fitting : t <= y

\* Configuration::brute_force : the state is built, recursion() is entered
brute_force ==
    /\ pc = "new"
    /\ pc' = "recursion"
    /\ frames' = <<[iter |-> 1]>>
    /\ stats' = brute_force_recursion_head(stats, how_many_free)
    /\ UNCHANGED <<cfg, grid, how_many_free, stack, results, positions_for_lookup,
                   initially_unavailable, results_limit, acceptance_threshold,
                   min_free_cells, ret, probe>>

\* the loop runs up to the next catalog entry that fits: the shape is placed
\* and recursion() is entered
brute_force_recursion_loop ==
    /\ pc = "recursion" /\ frames # <<>>
    /\ \E t \in 1..TETRAS_COUNT :
        /\ t = brute_force_next_fit(Top.iter)
        /\ brute_force_fill_and_push(
                brute_force_find_any_fit_for(static_tetras_iter[t])[1])
        /\ frames' = Append([frames EXCEPT ![Len(frames)].iter = t + 1], [iter |-> 1])
    /\ stats' = brute_force_recursion_head(stats, how_many_free')
    /\ UNCHANGED <<cfg, results, positions_for_lookup, initially_unavailable,
                   results_limit, acceptance_threshold, min_free_cells, ret, pc, probe>>

\* no further catalog entry fits: recursion() returns, and its caller, if
\* any, runs self.pop_and_clear()
brute_force_recursion_return ==
    /\ pc = "recursion" /\ frames # <<>>
    /\ brute_force_next_fit(Top.iter) = 0
    /\ frames' = PopFrame
    /\ IF Len(frames) = 1
       THEN /\ pc' = "returned"
            /\ UNCHANGED <<grid, how_many_free, stack>>
       ELSE /\ pc' = pc
            /\ brute_force_pop_and_clear
    /\ UNCHANGED <<cfg, results, positions_for_lookup, initially_unavailable,
                   results_limit, acceptance_threshold, min_free_cells, stats,
                   ret, probe>>

Empty4x4 == brute_force_Configuration(Size(4, 4), {})

\* the configurations the exhaustive search is run on
BruteForceConfigs ==
    {Empty4x4,
     brute_force_Configuration(Size(2, 2), {}),
     brute_force_Configuration(Size(2, 3), {}),
     brute_force_Configuration(Size(2, 4), {}),
     brute_force_Configuration(Size(3, 3), {}),
     brute_force_Configuration(Size(3, 3), {Pos(0, 0)}),
     brute_force_Configuration(Size(3, 4), {Pos(1, 1), Pos(2, 3)})}

brute_force_StateOf(c) ==
    LET s == brute_force_new(c.size, c.unavailable)
    IN  /\ cfg = c
        /\ grid = s.grid
        /\ how_many_free = s.how_many_free
        /\ stack = s.stack
        /\ results = s.results
        /\ positions_for_lookup = s.positions_for_lookup
        /\ min_free_cells = s.min_free_cells
        /\ initially_unavailable = 0
        /\ results_limit = 0
        /\ acceptance_threshold = 0
        /\ stats = NewStats
        /\ frames = <<>>
        /\ ret = "None"
        /\ pc = "new"
        /\ probe = NoProbe

InitBruteForce == \E c \in BruteForceConfigs : brute_force_StateOf(c)

NextBruteForce ==
    \/ brute_force
    \/ brute_force_recursion_loop
    \/ brute_force_recursion_return

SpecBruteForce == InitBruteForce /\ [][NextBruteForce]_vars

---------------------------------------------------------------------------
(* algorithm.rs, tests::results_count_for_non_empty_6x6 : the 6x6 grid     *)
(* with a blocked 2x2 square in its corner, searched exhaustively.  The    *)
(* search is followed for its first MaxRecursions calls of recursion().    *)

Blocked6x6 ==
    brute_force_Configuration(Size(6, 6), {Pos(0, 0), Pos(0, 1), Pos(1, 0), Pos(1, 1)})

InitBlocked6x6 == brute_force_StateOf(Blocked6x6)

NextBlocked6x6 ==
    /\ stats.recursions < MaxRecursions
    /\ NextBruteForce

SpecBlocked6x6 == InitBlocked6x6 /\ [][NextBlocked6x6]_vars

---------------------------------------------------------------------------
(* algorithm.rs, mod tests::caching : the state is driven directly with    *)
(* force_fill and pop_and_clear, as cache_behaviour does                   *)

\* `self.fill_and_push(self.find_any_fit_for(tetra).unwrap())`
force_fill(tetra) ==
    /\ pc = "new"
    /\ find_any_fit_for(tetra) # None
    /\ fill_and_push(find_any_fit_for(tetra)[1])
    /\ UNCHANGED <<cfg, results, initially_unavailable, results_limit,
                   acceptance_threshold, min_free_cells, stats, frames, ret, pc, probe>>

\* `state.pop_and_clear()`
force_pop_and_clear ==
    /\ pc = "new"
    /\ pop_and_clear
    /\ UNCHANGED <<cfg, results, initially_unavailable, results_limit,
                   acceptance_threshold, min_free_cells, stats, frames, ret, pc, probe>>

\* the configurations the cache is driven on
CacheConfigs ==
    {Configuration(Size(4, 5), {}, 0),
     Configuration(Size(3, 6), {Pos(0, 0), Pos(2, 5)}, 0)}

InitCache == \E c \in CacheConfigs : StateOf(c)

NextCache ==
    \/ \E idx \in 1..TETRAS_COUNT : force_fill(TETRAS[idx])
    \/ force_pop_and_clear

SpecCache == InitCache /\ [][NextCache]_vars

---------------------------------------------------------------------------
(* tetra.rs : PlacedTetraInBoundaries::in_boundaries called on its own, as *)
(* the tests of mod test do, for every shape, anchor and grid size within  *)
(* the bounds                                                              *)

Idle ==
    /\ cfg = brute_force_Configuration(Size(1, 1), {})
    /\ grid = <<>>
    /\ how_many_free = 0
    /\ stack = <<>>
    /\ results = <<>>
    /\ positions_for_lookup = <<>>
    /\ initially_unavailable = 0
    /\ results_limit = 0
    /\ acceptance_threshold = 0
    /\ min_free_cells = 0
    /\ stats = NewStats
    /\ frames = <<>>
    /\ ret = "None"
    /\ pc = "probe"

InitValidate ==
    /\ Idle
    /\ \E idx \in 1..TETRAS_COUNT, row \in 0..MaxCoord, col \in 0..MaxCoord,
          rows \in 1..MaxDim, cols \in 1..MaxDim :
            probe = [state |-> "input",
                     placed |-> PlacedTetra(TETRAS[idx], Pos(row, col)),
                     boundaries |-> Size(rows, cols),
                     result |-> None]

validate ==
    /\ pc = "probe" /\ probe.state = "input"
    /\ probe' = [probe EXCEPT !.state = "done",
                              !.result = in_boundaries(probe.placed, probe.boundaries)]
    /\ UNCHANGED engine_vars

NextValidate == validate

SpecValidate == InitValidate /\ [][NextValidate]_vars

---------------------------------------------------------------------------
(* algorithm.rs : a run that starts from the Configuration value, before   *)
(* RecursionState::with_configuration has built the state.  Configuration  *)
(* ::new stores its arguments unchecked, so any size and any set of        *)
(* positions reaches with_configuration.                                   *)

\* `grid[*row][*col] = Cell::Unavailable` indexes outside the grid: the
\* index operation panics
with_configuration_panics(c) ==
    \E p \in c.unavailable : ~(p.row < c.size.rows /\ p.col < c.size.cols)

\* a Configuration exists, no RecursionState yet
Unbuilt(c) ==
    /\ cfg = c
    /\ grid = <<>>
    /\ how_many_free = 0
    /\ stack = <<>>
    /\ results = <<>>
    /\ positions_for_lookup = <<>>
    /\ initially_unavailable = 0
    /\ results_limit = 0
    /\ acceptance_threshold = 0
    /\ min_free_cells = 0
    /\ stats = NewStats
    /\ frames = <<>>
    /\ ret = "None"
    /\ pc = "config"
    /\ probe = NoProbe

\* the first statement of RecursionState::run :
\* `let mut state = RecursionState::with_configuration(cfg, stats);`
run_with_configuration ==
    /\ pc = "config"
    /\ IF with_configuration_panics(cfg)
       THEN /\ pc' = "panicked"
            /\ UNCHANGED <<grid, how_many_free, stack, results, positions_for_lookup,
                           initially_unavailable, results_limit, acceptance_threshold>>
       ELSE LET s == with_configuration(cfg)
            IN  /\ pc' = "new"
                /\ grid' = s.grid
                /\ how_many_free' = s.how_many_free
                /\ stack' = s.stack
                /\ results' = s.results
                /\ positions_for_lookup' = s.positions_for_lookup
                /\ initially_unavailable' = s.initially_unavailable
                /\ results_limit' = s.results_limit
                /\ acceptance_threshold' = s.acceptance_threshold
    /\ UNCHANGED <<cfg, min_free_cells, stats, frames, ret, probe>>

\* the configurations handed to Configuration::new : those of Configs, grids
\* of zero area, and blocked positions outside the grid
ConstructConfigs ==
    Configs
        \cup {Configuration(Size(0, 0), {}, 0),
              Configuration(Size(0, 3), {}, 0),
              Configuration(Size(2, 0), {}, 1),
              Configuration(Size(0, 0), {Pos(0, 0)}, 0),
              Configuration(Size(2, 2), {Pos(2, 0)}, 0),
              Configuration(Size(2, 4), {Pos(0, 0), Pos(0, 4)}, 0),
              Configuration(Size(2, 3), {Pos(5, 5)}, 1)}

InitConstruct == \E c \in ConstructConfigs : Unbuilt(c)

NextConstruct ==
    \/ run_with_configuration
    \/ Next

SpecConstruct == InitConstruct /\ [][NextConstruct]_vars

---------------------------------------------------------------------------
(* algorithm.rs : the randomized search on a grid large enough for the     *)
(* acceptance threshold to exceed the size of a shape: 28 usable cells     *)
(* give floor(sqrt(28)) = 5.  On a strip one cell high only I_HORIZONTAL   *)
(* fits, always at the first four Empty cells.                             *)

StripConfigs == {Configuration(Size(1, 28), {}, 1)}

InitStrip == \E c \in StripConfigs : StateOf(c)

SpecStrip == InitStrip /\ [][Next]_vars

---------------------------------------------------------------------------
(* The randomized search on strips of twenty usable cells: five calls deep *)
(* the stack holds CACHE_EACH_TETRAS placements and the cache is rebuilt   *)
(* on the way down and on the way back.                                    *)

UndoConfigs ==
    {Configuration(Size(1, 20), {}, 1),
     Configuration(Size(1, 21), {Pos(0, 2)}, 1)}

InitUndo == \E c \in UndoConfigs : StateOf(c)

SpecUndo == InitUndo /\ [][Next]_vars

---------------------------------------------------------------------------
(* The randomized search on small grids whose number of usable cells is    *)
(* not a multiple of four.                                                 *)

RemainderConfigs ==
    {Configuration(Size(2, 3), {}, 0),
     Configuration(Size(1, 7), {}, 0),
     Configuration(Size(2, 5), {}, 0),
     Configuration(Size(3, 3), {}, 1)}

InitRemainder == \E c \in RemainderConfigs : StateOf(c)

SpecRemainder == InitRemainder /\ [][Next]_vars

---------------------------------------------------------------------------
(* parse_field.rs : the field parser.  A text is a sequence of characters; *)
(* a character is named by a string and has the length of its UTF-8        *)
(* encoding, since str::len and the offsets of a SourceSpan count bytes    *)
(* while chars().enumerate() counts characters.  "middot" is U+00B7, the   *)
(* CHAR_EMPTY of app_terminal.rs, two bytes long.                          *)

Chars == {"-", "+", "#", "middot", "LF", "CR"}

len_utf8(char) == IF char = "middot" THEN 2 ELSE 1

\* str::len : the length in bytes
RECURSIVE str_len(_)
str_len(str) ==
    IF str = <<>> THEN 0 ELSE len_utf8(Head(str)) + str_len(Tail(str))

SourceSpan(offset, length) == [offset |-> offset, length |-> length]

ParsedField(size, unavailable) == [size |-> size, unavailable |-> unavailable]

Ok(value) == [ok |-> TRUE, value |-> value]

Err(error) == [ok |-> FALSE, error |-> error]

Parser(char_empty, char_busy) == [char_empty |-> char_empty, char_busy |-> char_busy]

\* source.split_inclusive("\n") : the pieces, each with its line feed
RECURSIVE split_inclusive(_)
split_inclusive(source) ==
    IF source = <<>>
    THEN <<>>
    ELSE LET feeds == {i \in DOMAIN source : source[i] = "LF"}
         IN  IF feeds = {}
             THEN <<source>>
             ELSE LET i == CHOOSE f \in feeds : \A g \in feeds : f <= g
                  IN  <<SubSeq(source, 1, i)>>
                          \o split_inclusive(SubSeq(source, i + 1, Len(source)))

strip_n_r(line) ==
    IF line = <<>> \/ line[Len(line)] # "LF"
    THEN line
    ELSE LET stripped == SubSeq(line, 1, Len(line) - 1)
         IN  IF stripped = <<>> \/ stripped[Len(stripped)] # "CR"
             THEN stripped
             ELSE SubSeq(stripped, 1, Len(stripped) - 1)

\* the iterator Offset : each piece with the byte offset it starts at
RECURSIVE str_offsets(_, _)
str_offsets(pieces, offset) ==
    IF pieces = <<>>
    THEN <<>>
    ELSE <<[offset |-> offset, line |-> strip_n_r(Head(pieces))]>>
            \o str_offsets(Tail(pieces), offset + str_len(Head(pieces)))

lines_with_offsets(source) == str_offsets(split_inclusive(source), 0)

\* `for (col, char) in line.chars().enumerate()` : the column of the first
\* character that is neither glyph, 0 - 1 if there is none
first_unexpected(self, line) ==
    LET bad == {i \in DOMAIN line :
                    line[i] # self.char_busy /\ line[i] # self.char_empty}
    IN  IF bad = {} THEN 0 - 1
        ELSE (CHOOSE i \in bad : \A j \in bad : i <= j) - 1

\* the body of the loop over the lines, from line number `row` on, and the
\* code after the loop
RECURSIVE parse_lines(_, _, _, _, _, _)
parse_lines(self, source_code, lines, row, cols, unavailable) ==
    IF row >= Len(lines)
    THEN IF row = 0
         THEN Err([kind |-> "Empty input"])
         ELSE IF row < 2
              THEN Err([kind |-> "NotEnoughRows",
                        all_rows_span |-> SourceSpan(0, str_len(source_code))])
              ELSE Ok(ParsedField(Size(row, cols), unavailable))
    ELSE LET line     == lines[row + 1].line
             offset   == lines[row + 1].offset
             line_len == str_len(line)
             new_cols == IF cols = 0 THEN line_len ELSE cols
             col      == first_unexpected(self, line)
         IN  IF cols = 0 /\ line_len < 2
             THEN Err([kind |-> "NotEnoughColumns",
                       short_row_span |-> SourceSpan(offset, line_len)])
             ELSE IF cols # 0 /\ line_len # cols
             THEN Err([kind |-> "FickleRowLength",
                       reference_row |-> SourceSpan(0, cols),
                       bad_row |-> SourceSpan(offset, line_len),
                       len_reference |-> cols,
                       len_actual |-> line_len])
             ELSE IF col >= 0
             THEN Err([kind |-> "UnexpectedCharacter",
                       loc |-> SourceSpan(offset + col, 1),
                       char_empty |-> self.char_empty,
                       char_busy |-> self.char_busy])
             ELSE parse_lines(self, source_code, lines, row + 1, new_cols,
                        unavailable \cup
                            {Pos(row, i - 1) : i \in {j \in DOMAIN line :
                                                        line[j] = self.char_busy}})

parse_without_source_code(self, field) ==
    parse_lines(self, field, lines_with_offsets(field), 0, 0, {})

\* Parser::parse : the same result, the error wrapped with the source text
parse(self, field) == parse_without_source_code(self, field)

\* the parser of the tests and one whose empty glyph is CHAR_EMPTY
Parsers == {Parser("-", "+"), Parser("middot", "+")}

\* the texts of parses_empty_2x2_field, parses_non_empty_3x2 and
\* unexpected_char_encountered
TestFields ==
    {<<"-", "-", "LF", "-", "-">>,
     <<"-", "-", "+", "LF", "-", "+", "-">>,
     <<"-", "-", "-", "LF", "-", "-", "#">>}

Fields == UNION {[1..n -> Chars] : n \in 0..MaxInput} \cup TestFields

InitParse ==
    /\ Idle
    /\ \E parser \in Parsers, field \in Fields :
            probe = [state |-> "input", parser |-> parser, field |-> field,
                     result |-> None]

parse_field ==
    /\ pc = "probe" /\ probe.state = "input"
    /\ probe' = [probe EXCEPT !.state = "done",
                              !.result = Some(parse(probe.parser, probe.field))]
    /\ UNCHANGED engine_vars

NextParse == parse_field

SpecParse == InitParse /\ [][NextParse]_vars

---------------------------------------------------------------------------
(* app_terminal.rs : live_configuration::State, the interactive editor of  *)
(* the field.  One step is one key event of the loop of State::live with   *)
(* the align_cursor that follows it; printing changes no state, and a key  *)
(* that is none of those below changes nothing.                            *)

\* Bounded<N, M>::inc; M is usize::MAX in every Bounded of State and the
\* values of the model stay far below it, so `self.0 < M` holds
Bounded_inc(self) == self + 1

\* Bounded<N, M>::dec
Bounded_dec(self, N) == IF self > N THEN self - 1 ELSE self

\* State::new(rows, cols)
State_new(rows, cols) ==
    [state |-> "live", rows |-> rows, cols |-> cols,
     cursor |-> <<0, 0>>, unavailable |-> {}, configuration |-> None]

cursor_as_pos(self) == Pos(self.cursor[1], self.cursor[2])

align_cursor(self) ==
    LET min(a, b) == IF a < b THEN a ELSE b
    IN  [self EXCEPT !.cursor = <<min(self.cursor[1], self.rows - 1),
                                  min(self.cursor[2], self.cols - 1)>>]

toggle_under_cursor(self) ==
    LET entry == cursor_as_pos(self)
    IN  IF entry \in self.unavailable
        THEN [self EXCEPT !.unavailable = @ \ {entry}]
        ELSE [self EXCEPT !.unavailable = @ \cup {entry}]

\* Configuration::new((self.rows.0, self.cols.0).into(), self.unavailable)
into_configuration(self) ==
    Configuration(Size(self.rows, self.cols), self.unavailable, 0)

KeyCodes == {"w", "s", "a", "d", "Left", "Right", "Up", "Down", "Space"}

\* the arm of `match code` for a key that goes round the loop once more
key(self, code) ==
    CASE code = "w"     -> [self EXCEPT !.rows = Bounded_dec(@, 1)]
      [] code = "s"     -> [self EXCEPT !.rows = Bounded_inc(@)]
      [] code = "a"     -> [self EXCEPT !.cols = Bounded_dec(@, 1)]
      [] code = "d"     -> [self EXCEPT !.cols = Bounded_inc(@)]
      [] code = "Left"  -> [self EXCEPT !.cursor[2] = Bounded_dec(@, 0)]
      [] code = "Right" -> [self EXCEPT !.cursor[2] = Bounded_inc(@)]
      [] code = "Up"    -> [self EXCEPT !.cursor[1] = Bounded_dec(@, 0)]
      [] code = "Down"  -> [self EXCEPT !.cursor[1] = Bounded_inc(@)]
      [] code = "Space" -> toggle_under_cursor(self)

\* one turn of the loop of State::live: the key, then self.align_cursor()
live(code) ==
    /\ pc = "probe" /\ probe.state = "live"
    /\ code = "s" => probe.rows < MaxEdit
    /\ code = "d" => probe.cols < MaxEdit
    /\ Cardinality(key(probe, code).unavailable) <= MaxBlocked
    /\ probe' = align_cursor(key(probe, code))
    /\ UNCHANGED engine_vars

\* Enter: the loop breaks with Proceed and main calls into_configuration
live_Enter ==
    /\ pc = "probe" /\ probe.state = "live"
    /\ probe' = [probe EXCEPT !.state = "proceed",
                              !.configuration = Some(into_configuration(probe))]
    /\ UNCHANGED engine_vars

\* Esc: the loop breaks with Terminate and the process exits
live_Esc ==
    /\ pc = "probe" /\ probe.state = "live"
    /\ probe' = [probe EXCEPT !.state = "terminate"]
    /\ UNCHANGED engine_vars

\* main: live_configuration::State::new(4, 4).live()
InitEditor == Idle /\ probe = State_new(4, 4)

NextEditor ==
    \/ \E code \in KeyCodes : live(code)
    \/ live_Enter
    \/ live_Esc

SpecEditor == InitEditor /\ [][NextEditor]_vars

---------------------------------------------------------------------------
(* Notions the properties below are stated with.                           *)

\* the number of cells of the configured grid that are not blocked
Usable == cfg.size.rows * cfg.size.cols - Cardinality(cfg.unavailable)

CellsIn(state) == {p \in DOMAIN grid : grid[p] = state}

\* the absolute cells of a placement, by plain integer arithmetic
CellsOf(placed) == Range(iter_relative_to_place(placed))

InsideGrid(p, size) ==
    /\ 0 <= p.row /\ p.row < size.rows
    /\ 0 <= p.col /\ p.col < size.cols

\* every catalog shape at every anchor of configuration c that lies inside the
\* grid and on non-blocked cells
AllPlacements(c) ==
    {pl \in {PlacedTetra(TETRAS[t], p) : t \in 1..TETRAS_COUNT, p \in Range(RowMajor(c.size))} :
        \A q \in CellsOf(pl) : InsideGrid(q, c.size) /\ q \notin c.unavailable}

\* the sets of k pairwise non-overlapping placements drawn from cands that
\* avoid the cells of covered
RECURSIVE Packings(_, _, _)
Packings(k, cands, covered) ==
    IF k = 0
    THEN {{}}
    ELSE UNION {
            {S \cup {pl} : S \in Packings(k - 1, cands \ {pl}, covered \cup CellsOf(pl))} :
                pl \in {q \in cands : CellsOf(q) \cap covered = {}}}

\* the packings of c that leave exactly (usable cells mod 4) cells uncovered
MinRemainderPackings(c) ==
    Packings((c.size.rows * c.size.cols - Cardinality(c.unavailable)) \div 4,
             AllPlacements(c), {})

---------------------------------------------------------------------------
(* C1. The exhaustive search of an empty 4x4 grid returns exactly 267      *)
(* PlacementResults, pairwise distinct, each with leftover count 0.        *)

C1_Empty4x4Returns267 ==
    (pc = "returned" /\ cfg = Empty4x4) =>
        /\ Len(results) = 267
        /\ \A i, j \in DOMAIN results : i # j => results[i] # results[j]
        /\ \A i \in DOMAIN results : results[i].free = 0

---------------------------------------------------------------------------
(* C2. Whenever the cache can be queried, after any sequence of            *)
(* fill_and_push / pop_and_clear, positions_for_lookup contains every      *)
(* position whose cell is Empty.                                           *)

C2_CacheHoldsEveryEmpty ==
    \A p \in DOMAIN grid :
        grid[p] = "Empty" => p \in Range(positions_for_lookup)

\* four shapes are placed, the cache has dropped 16 positions and holds
\* exactly the cells still Empty
C2_Witness ==
    /\ Len(stack) = 4
    /\ how_many_free > 0
    /\ Len(positions_for_lookup) = Usable - 16
    /\ Range(positions_for_lookup) = CellsIn("Empty")

---------------------------------------------------------------------------
(* C3. In every result of the randomized search the cells of each          *)
(* placement lie inside the grid, no cell is covered by two placements of  *)
(* the result, and no covered cell is blocked.                             *)

C3_ResultsAreValid ==
    \A i \in DOMAIN results :
        LET placement == results[i].placement
        IN  /\ \A j \in DOMAIN placement : \A q \in CellsOf(placement[j]) :
                    InsideGrid(q, cfg.size) /\ q \notin cfg.unavailable
            /\ \A j, k \in DOMAIN placement :
                    j # k => CellsOf(placement[j]) \cap CellsOf(placement[k]) = {}

\* a returned result of two placements on a grid with a blocked cell
C3_Witness ==
    /\ pc = "returned"
    /\ cfg.unavailable # {}
    /\ \E i \in DOMAIN results : Len(results[i].placement) = 2

---------------------------------------------------------------------------
(* C4. The `free` field of every result equals the number of cells that    *)
(* were Empty when it was accepted: usable cells - 4 * placements.         *)

C4_FreeIsLeftover ==
    \A i \in DOMAIN results :
        results[i].free = Usable - 4 * Len(results[i].placement)

---------------------------------------------------------------------------
(* C5. With a result cap N, results never holds more than N entries, and   *)
(* the N-th acceptance makes the search halt: the cap is reached exactly   *)
(* when Halt is being returned, and a halted run returns exactly N.        *)

C5_ResultCap ==
    /\ results_limit # 0 =>
            /\ Len(results) <= results_limit
            /\ Len(results) = results_limit => ret = "Halt"
    /\ ret = "Halt" => results_limit # 0 /\ Len(results) = results_limit

\* a run capped at 2 has returned, by Halt, with its second result
C5_Witness ==
    /\ pc = "returned"
    /\ ret = "Halt"
    /\ results_limit = 2
    /\ Len(results) = 2

---------------------------------------------------------------------------
(* C6. Once recursion() has returned Halt, every step up to the return of  *)
(* run is an enclosing call returning Halt: one frame goes, and no shape   *)
(* is tried, nothing is filled or cleared, no call is entered, no result   *)
(* is appended.                                                            *)

C6_HaltPropagates ==
    [][ret = "Halt" =>
            /\ ret' = "Halt"
            /\ frames' = PopFrame
            /\ UNCHANGED <<grid, how_many_free, stack, results,
                           positions_for_lookup, stats>>]_vars

\* Halt has passed through one enclosing call and is about to pass the root,
\* with both placements still on the stack
C6_Witness ==
    /\ pc = "recursion"
    /\ ret = "Halt"
    /\ Len(frames) = 1
    /\ Len(stack) = 2

---------------------------------------------------------------------------
(* C7. The exhaustive search is complete: every set of pairwise            *)
(* non-overlapping in-bounds placements on non-blocked cells that leaves   *)
(* exactly (usable cells mod 4) cells uncovered is the placement set of    *)
(* some returned result.                                                   *)

C7_ExhaustiveIsComplete ==
    pc = "returned" =>
        \A packing \in MinRemainderPackings(cfg) :
            \E i \in DOMAIN results : Range(results[i].placement) = packing

---------------------------------------------------------------------------
(* C8. in_boundaries returns Some exactly when the four absolute cells of  *)
(* the placement lie inside the grid, which is exactly when                *)
(* col >= col_shift, col + width - col_shift <= cols, row + height <= rows.*)

C8_InBoundariesIffInside ==
    probe.state = "done" =>
        LET tetra  == probe.placed.tetra
            anchor == probe.placed.position
            inside == \A q \in CellsOf(probe.placed) : InsideGrid(q, probe.boundaries)
            fits   == /\ anchor.col >= tetra.col_shift
                      /\ anchor.col + tetra.size.cols - tetra.col_shift
                            <= probe.boundaries.cols
                      /\ anchor.row + tetra.size.rows <= probe.boundaries.rows
        IN  /\ probe.result \in {None, Some(probe.placed)}
            /\ probe.result # None <=> inside
            /\ inside <=> fits

\* a shape with a left overhang of 2 is accepted with cells left of its anchor
C8_Witness ==
    /\ probe.state = "done"
    /\ probe.result # None
    /\ probe.placed.tetra.col_shift = 2
    /\ probe.placed.position.col = 2

---------------------------------------------------------------------------
(* C9. A shape with col_shift s is rejected at every anchor column < s and *)
(* accepted at anchor column s whenever the rest of its bounding box fits; *)
(* T_LOOK_LEFT at (0,2) in a 3x3 grid is accepted.                         *)

C9_BoundaryLaw ==
    probe.state = "done" =>
        LET tetra  == probe.placed.tetra
            anchor == probe.placed.position
        IN  /\ anchor.col < tetra.col_shift => probe.result = None
            /\ ( /\ anchor.col = tetra.col_shift
                 /\ tetra.size.cols <= probe.boundaries.cols
                 /\ anchor.row + tetra.size.rows <= probe.boundaries.rows )
                    => probe.result # None
            /\ ( /\ probe.placed = PlacedTetra(T_LOOK_LEFT, Pos(0, 2))
                 /\ probe.boundaries = Size(3, 3) )
                    => probe.result # None

\* the case of test checj_t_at_right_border: anchor in the last column
C9_Witness ==
    /\ probe.state = "done"
    /\ probe.placed = PlacedTetra(T_LOOK_LEFT, Pos(0, 2))
    /\ probe.boundaries = Size(3, 3)
    /\ probe.result = Some(probe.placed)

---------------------------------------------------------------------------
(* C10. In every state of a run how_many_free is the number of Empty cells *)
(* and the Empty, Occupied and Unavailable cells add up to rows * cols.    *)

C10_GridAccounting ==
    /\ how_many_free = Cardinality(CellsIn("Empty"))
    /\ Cardinality(CellsIn("Empty")) + Cardinality(CellsIn("Occupied"))
            + Cardinality(CellsIn("Unavailable"))
         = cfg.size.rows * cfg.size.cols
    /\ Cardinality(CellsIn("Occupied")) = 4 * Len(stack)

\* back at one placement after a deeper call returned and its shape was
\* cleared, on a grid with a blocked cell
C10_Witness ==
    /\ cfg.unavailable # {}
    /\ Len(stack) = 1
    /\ Len(frames) = 2
    /\ ret = "None"
    /\ Top.was_any_fit

---------------------------------------------------------------------------
(* C11. A Configuration whose grid has zero area, or that holds a blocked  *)
(* position outside the grid, is rejected at construction with an error    *)
(* handed to the caller: the run neither panics nor goes on to build the   *)
(* state and search.                                                       *)

C11_InvalidConfigurationRejected ==
    ( \/ cfg.size.rows * cfg.size.cols = 0
      \/ \E p \in cfg.unavailable : ~InsideGrid(p, cfg.size) )
        => pc \in {"config", "rejected"}

---------------------------------------------------------------------------
(* C12. A recursion() call appends a result exactly when, after all its    *)
(* sampled shapes were tried, none of them was placed (was_any_fit is      *)
(* false) and how_many_free < acceptance_threshold.  It appends at most    *)
(* one result, the current stack, and only in the step that ends the call. *)

C12_RandomizedAcceptance ==
    [][ /\ (pc = "recursion" /\ ret = "None" /\ Top.iter > 0) =>
                /\ results' = results
                /\ frames'[Len(frames)].was_any_fit
                        = (Top.was_any_fit \/ Len(stack') > Len(stack))
        /\ (pc = "recursion" /\ ret = "None" /\ Top.iter = 0) =>
                IF ~Top.was_any_fit /\ how_many_free < acceptance_threshold
                THEN results' = Append(results, PlacementResult(stack, 0))
                ELSE results' = results
        /\ results' # results =>
                /\ pc = "recursion" /\ ret = "None" /\ Top.iter = 0
                /\ frames' = PopFrame
                /\ Len(results') = Len(results) + 1
                /\ SubSeq(results', 1, Len(results)) = results ]_vars

\* a call below the root has just appended the stack it was entered with
\* and handed Continue to its caller
C12_Witness ==
    /\ pc = "recursion"
    /\ ret = "Continue"
    /\ frames # <<>>
    /\ stack # <<>>
    /\ results # <<>>
    /\ results[Len(results)].placement = stack
    /\ how_many_free < acceptance_threshold

---------------------------------------------------------------------------
(* C13. Every recorded result is a genuine dead end, whatever shapes the   *)
(* call sampled: with the placements of the result on the grid, no catalog *)
(* shape at any anchor lies inside the grid on cells that are all Empty.   *)

C13_ResultsAreDeadEnds ==
    \A i \in DOMAIN results :
        LET covered == UNION {CellsOf(results[i].placement[j]) :
                                j \in DOMAIN results[i].placement}
        IN  \A t \in 1..TETRAS_COUNT, p \in DOMAIN grid :
                \E q \in CellsOf(PlacedTetra(TETRAS[t], p)) :
                    \/ ~InsideGrid(q, cfg.size)
                    \/ q \in cfg.unavailable
                    \/ q \in covered

---------------------------------------------------------------------------
(* C14. The exhaustive search of the 6x6 grid whose blocked cells are      *)
(* (0,0), (0,1), (1,0), (1,1) returns exactly 44 results: it accepts 44    *)
(* nodes in all, so it has never accepted more than 44, and at its return  *)
(* results holds 44 entries.                                               *)

C14_Blocked6x6Returns44 ==
    cfg = Blocked6x6 =>
        /\ stats.results <= 44
        /\ pc = "returned" => Len(results) = 44

---------------------------------------------------------------------------
(* C15. results is append-only: every step leaves the entries already      *)
(* recorded where they are and as they are, whatever fill_and_push or      *)
(* pop_and_clear does to the live stack; new entries come at the end.      *)

C15_SnapshotsImmutable ==
    [][ /\ Len(results') >= Len(results)
        /\ \A i \in DOMAIN results : results'[i] = results[i] ]_vars

\* two different placements are recorded and the live stack has since been
\* cleared below both of them
C15_Witness ==
    /\ Len(results) >= 2
    /\ results[1].placement # results[2].placement
    /\ Len(stack) < Len(results[1].placement)
    /\ Len(stack) < Len(results[2].placement)

---------------------------------------------------------------------------
(* C16, as stated. Every fill_and_push is matched, before run returns, by  *)
(* one pop_and_clear of the same placement: when run has returned, the     *)
(* stack is empty and the grid is as it was built.                         *)

C16_EveryPushUndone ==
    pc = "returned" =>
        /\ stack = <<>>
        /\ grid = with_configuration(cfg).grid

(* C16, amended. In a run that does not halt on the result cap every       *)
(* fill_and_push is matched by one pop_and_clear of the same placement, in *)
(* LIFO order: each active call below the root has exactly its caller's    *)
(* placement on the stack, a pop takes the last placement and empties its  *)
(* four cells, and at the return the stack is empty and the grid as built. *)
(* A run that halts leaves the placements of the halting result on the     *)
(* stack, not undone.                                                      *)

C16_PairedUnlessHalted ==
    /\ [](pc = "recursion" /\ ret = "None" => Len(stack) = Len(frames) - 1)
    /\ [](pc = "recursion" /\ ret = "Continue" => Len(stack) = Len(frames))
    /\ [](pc = "returned" /\ ret # "Halt" =>
                /\ stack = <<>>
                /\ grid = with_configuration(cfg).grid
                /\ how_many_free = Usable)
    /\ [](ret = "Halt" => stack = results[Len(results)].placement)
    /\ [][ /\ Len(stack') > Len(stack) =>
               /\ Len(stack') = Len(stack) + 1
               /\ SubSeq(stack', 1, Len(stack)) = stack
               /\ grid' = [p \in DOMAIN grid |->
                               IF p \in CellsOf(stack'[Len(stack')])
                               THEN "Occupied" ELSE grid[p]]
           /\ Len(stack') < Len(stack) =>
               /\ stack' = SubSeq(stack, 1, Len(stack) - 1)
               /\ grid' = [p \in DOMAIN grid |->
                               IF p \in CellsOf(stack[Len(stack)])
                               THEN "Empty" ELSE grid[p]]
           /\ Len(stack') = Len(stack) => stack' = stack /\ grid' = grid ]_vars

\* a run without Halt has returned after placing and clearing shapes two
\* deep, with results recorded on the way
C16_Witness ==
    /\ pc = "returned"
    /\ ret = "Continue"
    /\ stack = <<>>
    /\ \E i \in DOMAIN results : Len(results[i].placement) = 2

---------------------------------------------------------------------------
(* C17. After any sequence of fill_and_push and pop_and_clear from a fresh *)
(* state, with d shapes on the stack, positions_for_lookup has exactly     *)
(* U - 16 * floor(d / 4) entries, U being the number of non-blocked cells. *)

C17_CacheSizeLaw ==
    Len(positions_for_lookup) = Usable - 16 * (Len(stack) \div 4)

\* d = 5 on a grid with blocked cells or without: still 16 positions dropped
C17_Witness ==
    /\ Len(stack) = 5
    /\ Len(positions_for_lookup) = Usable - 16
    /\ Len(positions_for_lookup) > how_many_free

---------------------------------------------------------------------------
(* C18. TETRAS has exactly 19 entries, pairwise distinct as cell sets;     *)
(* each has four distinct, edge-connected cells with least row 0 and least *)
(* column 0; and the 19 cell sets are exactly the fixed tetrominoes: every *)
(* rotation and reflection of the seven tetromino forms.                   *)

Adjacent(a, b) ==
    \/ a.row = b.row /\ (a.col = b.col + 1 \/ b.col = a.col + 1)
    \/ a.col = b.col /\ (a.row = b.row + 1 \/ b.row = a.row + 1)

\* the cells of S can be listed so that each one touches an earlier one
EdgeConnected(S) ==
    \E order \in [1..4 -> S] :
        /\ Range(order) = S
        /\ \A k \in 2..4 : \E j \in 1..(k - 1) : Adjacent(order[k], order[j])

Normalised(S) ==
    /\ \A p \in S : p.row >= 0 /\ p.col >= 0
    /\ \E p \in S : p.row = 0
    /\ \E p \in S : p.col = 0

\* S moved so that its least row and least column are 0
Normalise(S) ==
    LET r0 == CHOOSE r \in {p.row : p \in S} : \A p \in S : r <= p.row
        c0 == CHOOSE c \in {p.col : p \in S} : \A p \in S : c <= p.col
    IN  {Pos(p.row - r0, p.col - c0) : p \in S}

\* every set of four edge-connected cells, up to translation
FixedTetrominoes ==
    LET Box == {Pos(r, c) : r \in 0..3, c \in 0..3}
    IN  {S \in {{a, b, c, d} : a \in Box, b \in Box, c \in Box, d \in Box} :
            Cardinality(S) = 4 /\ Normalised(S) /\ EdgeConnected(S)}

\* the forms O, I, T, L, J, S, Z
SevenForms ==
    {{Pos(0, 0), Pos(0, 1), Pos(1, 0), Pos(1, 1)},
     {Pos(0, 0), Pos(0, 1), Pos(0, 2), Pos(0, 3)},
     {Pos(0, 0), Pos(0, 1), Pos(0, 2), Pos(1, 1)},
     {Pos(0, 0), Pos(1, 0), Pos(2, 0), Pos(2, 1)},
     {Pos(0, 1), Pos(1, 1), Pos(2, 0), Pos(2, 1)},
     {Pos(0, 1), Pos(0, 2), Pos(1, 0), Pos(1, 1)},
     {Pos(0, 0), Pos(0, 1), Pos(1, 1), Pos(1, 2)}}

\* the k-th of the eight symmetries of the square grid, applied to a cell
Symmetry(k, p) ==
    LET q == IF k > 4 THEN Pos(p.row, 0 - p.col) ELSE p
        turns == k % 4
    IN  IF turns = 0 THEN q
        ELSE IF turns = 1 THEN Pos(q.col, 0 - q.row)
        ELSE IF turns = 2 THEN Pos(0 - q.row, 0 - q.col)
        ELSE Pos(0 - q.col, q.row)

Orientations(forms) ==
    {Normalise({Symmetry(k, p) : p \in F}) : F \in forms, k \in 1..8}

CatalogCells(i) == Range(TETRAS[i].positions)

C18_CatalogIsFixedTetrominoes ==
    /\ Len(TETRAS) = 19
    /\ TETRAS_COUNT = 19
    /\ \A i, j \in DOMAIN TETRAS : i # j => CatalogCells(i) # CatalogCells(j)
    /\ \A i \in DOMAIN TETRAS :
            /\ Cardinality(CatalogCells(i)) = 4
            /\ EdgeConnected(CatalogCells(i))
            /\ Normalised(CatalogCells(i))
    /\ {CatalogCells(i) : i \in DOMAIN TETRAS} = FixedTetrominoes
    /\ FixedTetrominoes = Orientations(SevenForms)
    /\ probe.state = "done" => Range(probe.placed.tetra.positions) \in FixedTetrominoes

\* the last catalog entry, an S form turned upright with its first cell in
\* column 1, has been handed to in_boundaries and accepted
C18_Witness ==
    /\ probe.state = "done"
    /\ probe.placed.tetra = TETRAS[TETRAS_COUNT]
    /\ Range(probe.placed.tetra.positions)
            = {Pos(0, 1), Pos(1, 0), Pos(1, 1), Pos(2, 0)}
    /\ probe.result # None

---------------------------------------------------------------------------
(* C19. In every state of a run a cell is Unavailable exactly when its     *)
(* position is in the blocked set of the configuration, and no step        *)
(* changes a cell to or from Unavailable.                                  *)

C19_BlockedCellsFrozen ==
    /\ [](\A p \in DOMAIN grid : grid[p] = "Unavailable" <=> p \in cfg.unavailable)
    /\ [][\A p \in DOMAIN grid :
                grid'[p] = "Unavailable" <=> grid[p] = "Unavailable"]_vars

\* every usable cell around a blocked one is Occupied, by two shapes
C19_Witness ==
    /\ cfg.unavailable # {}
    /\ Len(stack) = 2
    /\ CellsIn("Empty") = {}
    /\ CellsIn("Unavailable") = cfg.unavailable

---------------------------------------------------------------------------
(* C20. In every state the stack holds at most floor(rows * cols / 4)      *)
(* placements; more precisely how_many_free = U - 4 * depth >= 0, U being  *)
(* the number of non-blocked cells.  The calls of recursion() in progress  *)
(* never number more than that bound plus one, the root call.              *)

C20_DepthBound ==
    /\ Len(stack) <= (cfg.size.rows * cfg.size.cols) \div 4
    /\ how_many_free = Usable - 4 * Len(stack)
    /\ how_many_free >= 0
    /\ Len(frames) <= (cfg.size.rows * cfg.size.cols) \div 4 + 1

\* the bound is met: rows * cols / 4 placements, no cell free, and the
\* deepest call in progress
C20_Witness ==
    /\ 4 * Len(stack) = cfg.size.rows * cfg.size.cols
    /\ how_many_free = 0
    /\ Len(frames) = Len(stack) + 1
    /\ Len(stack) = 2

---------------------------------------------------------------------------
(* C21. results_inc is invoked once per accepted result and recursions_inc *)
(* once per entry of recursion(): the counter of results always equals the *)
(* number of recorded results, in particular when run has returned, and    *)
(* at least the root call has been counted by then.                        *)

C21_InstrumentationCounts ==
    /\ stats.results = Len(results)
    /\ pc = "returned" => stats.recursions >= 1

---------------------------------------------------------------------------
(* The field parser's text as the claims read it: rows are the lines of    *)
(* the text without their line ends, columns are characters.               *)

FieldRows(field) ==
    [i \in DOMAIN lines_with_offsets(field) |-> lines_with_offsets(field)[i].line]

IsGlyph(parser, char) == char = parser.char_empty \/ char = parser.char_busy

\* row number i of the text is made of glyphs and is as long as it has to be
RowWellFormed(parser, rows, i) ==
    /\ \A k \in DOMAIN rows[i] : IsGlyph(parser, rows[i][k])
    /\ Len(rows[i]) >= 2
    /\ Len(rows[i]) = Len(rows[1])

\* the number of characters of the text before row number i
RECURSIVE CharsBefore(_, _)
CharsBefore(field, i) ==
    IF i = 1 THEN 0
    ELSE CharsBefore(field, i - 1) + Len(split_inclusive(field)[i - 1])

---------------------------------------------------------------------------
(* C23. Parser::parse returns Ok exactly when the text has at least 2      *)
(* rows, its first row has at least 2 columns, every row is as long as the *)
(* first and every character is one of the two glyphs; otherwise it        *)
(* returns an error and no ParsedField.                                    *)

C23_ParserAcceptance ==
    probe.state = "done" =>
        LET rows   == FieldRows(probe.field)
            result == probe.result[1]
        IN  /\ result.ok <=>
                    /\ Len(rows) >= 2
                    /\ \A i \in DOMAIN rows : RowWellFormed(probe.parser, rows, i)
            /\ ~result.ok => DOMAIN result = {"ok", "error"}

---------------------------------------------------------------------------
(* C24. On success, whatever the glyphs, ParsedField.size is (number of    *)
(* rows, number of cells of a row), ParsedField.unavailable is exactly the *)
(* set of (row, col) whose character is the busy glyph, and every          *)
(* unavailable position lies inside size.                                  *)

C24_ParsedFieldMatchesText ==
    (probe.state = "done" /\ probe.result[1].ok) =>
        LET rows  == FieldRows(probe.field)
            field == probe.result[1].value
        IN  /\ field.size = Size(Len(rows), Len(rows[1]))
            /\ field.unavailable =
                    {Pos(i - 1, k - 1) : i \in DOMAIN rows, k \in 1..MaxInput + 2} \cap
                    {p \in [row : 0..MaxInput + 2, col : 0..MaxInput + 2] :
                        /\ p.row + 1 \in DOMAIN rows
                        /\ p.col + 1 \in DOMAIN rows[p.row + 1]
                        /\ rows[p.row + 1][p.col + 1] = probe.parser.char_busy}
            /\ \A p \in field.unavailable : InsideGrid(p, field.size)

---------------------------------------------------------------------------
(* C25. When the first row that is not made of glyphs alone follows        *)
(* well-formed rows and has their length, parse fails with                 *)
(* UnexpectedCharacter: its location is the span of length 1 at the offset *)
(* of the row's first such character in the whole text, which is the       *)
(* offset of the row plus the column, and it carries the two glyphs.       *)

C25_UnexpectedCharacterLocation ==
    probe.state = "done" =>
        LET rows == FieldRows(probe.field)
        IN  \A i \in DOMAIN rows :
                ( /\ \A j \in 1..(i - 1) : RowWellFormed(probe.parser, rows, j)
                  /\ Len(rows[i]) >= 2
                  /\ Len(rows[i]) = Len(rows[1])
                  /\ \E k \in DOMAIN rows[i] : ~IsGlyph(probe.parser, rows[i][k]) )
                =>
                LET col == first_unexpected(probe.parser, rows[i])
                    at  == CharsBefore(probe.field, i) + col
                IN  probe.result[1] =
                        Err([kind |-> "UnexpectedCharacter",
                             loc |-> SourceSpan(str_len(SubSeq(probe.field, 1, at)), 1),
                             char_empty |-> probe.parser.char_empty,
                             char_busy |-> probe.parser.char_busy])

---------------------------------------------------------------------------
(* C26. In every reachable state and for every shape, find_any_fit_for     *)
(* returns the placement at the first position, row by row over the whole  *)
(* grid, where the shape lies inside the grid on four Empty cells, and     *)
(* None exactly when there is no such position.                            *)

\* the answer of a scan of every grid position
FirstFitOfGrid(tetra) ==
    LET all == RowMajor(cfg.size)
        free(k) == \A q \in CellsOf(PlacedTetra(tetra, all[k])) :
                        InsideGrid(q, cfg.size) /\ grid[q] = "Empty"
        hits == {k \in DOMAIN all : free(k)}
    IN  IF hits = {}
        THEN None
        ELSE Some(PlacedTetra(tetra, all[CHOOSE k \in hits : \A j \in hits : k <= j]))

C26_FirstFitIsFullScan ==
    \A idx \in 1..TETRAS_COUNT :
        find_any_fit_for(TETRAS[idx]) = FirstFitOfGrid(TETRAS[idx])

\* the cache is stale: its head is an Occupied cell; one shape fits nowhere
\* and another fits at a later position of the cache
C26_Witness ==
    /\ stack # <<>>
    /\ grid[positions_for_lookup[1]] = "Occupied"
    /\ \E idx \in 1..TETRAS_COUNT : find_any_fit_for(TETRAS[idx]) = None
    /\ \E idx \in 1..TETRAS_COUNT :
            /\ find_any_fit_for(TETRAS[idx]) # None
            /\ find_any_fit_for(TETRAS[idx])[1].position # positions_for_lookup[1]

---------------------------------------------------------------------------
(* C27. Whenever fill_and_push(p) is executed, the four cells of p are     *)
(* Empty immediately before: no fill overwrites an Occupied or Unavailable *)
(* cell, and how_many_free never goes below zero.                          *)

C27_FillsOnlyEmpty ==
    /\ [](how_many_free >= 0)
    /\ [][Len(stack') = Len(stack) + 1 =>
            \A q \in CellsOf(stack'[Len(stack')]) : grid[q] = "Empty"]_vars

\* a second shape has been placed beside the first and a blocked cell, and
\* fewer than four cells are left
C27_Witness ==
    /\ pc = "recursion"
    /\ Len(stack) >= 2
    /\ how_many_free < 4
    /\ cfg.unavailable # {}

---------------------------------------------------------------------------
(* C28. fill_and_push(p), a nested recursion() that returns Continue and   *)
(* pop_and_clear leave the grid, how_many_free, the stack and              *)
(* positions_for_lookup as they were before fill_and_push(p).  Stated on   *)
(* single states and steps: a call of recursion() at depth d finds, every  *)
(* time it samples, d - 1 placements on the stack; no step of a deeper     *)
(* call touches those; and the grid, how_many_free and the cache are then  *)
(* what the stack alone determines.  The state before the fill and the     *)
(* state after the pop are two such moments of the same call.              *)

\* the grid of the configuration with the cells of the placements st Occupied
GridOf(st) ==
    [p \in DOMAIN grid |->
        IF p \in cfg.unavailable THEN "Unavailable"
        ELSE IF \E i \in DOMAIN st : p \in CellsOf(st[i]) THEN "Occupied"
        ELSE "Empty"]

\* the non-blocked cells row by row, without the first 16 * (Len(st) \div 4)
\* Occupied ones
LookupOf(st) ==
    LET all == RowMajor(cfg.size)
        RECURSIVE drop(_, _)
        drop(k, n) ==
            IF k > Len(all) THEN <<>>
            ELSE IF all[k] \in cfg.unavailable THEN drop(k + 1, n)
            ELSE IF GridOf(st)[all[k]] = "Occupied" /\ n > 0 THEN drop(k + 1, n - 1)
            ELSE <<all[k]>> \o drop(k + 1, n)
    IN  drop(1, 16 * (Len(st) \div 4))

C28_UndoRoundTrip ==
    /\ []((pc = "recursion" /\ ret = "None") =>
            /\ Len(stack) = Len(frames) - 1
            /\ grid = GridOf(stack)
            /\ how_many_free = Usable - 4 * Len(stack)
            /\ positions_for_lookup = LookupOf(stack))
    /\ [][LET d == IF Len(frames') < Len(frames) THEN Len(frames') ELSE Len(frames)
           IN  SubSeq(stack', 1, d - 1) = SubSeq(stack, 1, d - 1)]_vars

\* a call that has three placements below it is back at sampling after a
\* nested call returned Continue and its shape, the fourth, was cleared: the
\* cache, cut down to the Empty cells by the fill, is whole again
C28_Witness ==
    /\ pc = "recursion" /\ ret = "None"
    /\ Len(stack) = CACHE_EACH_TETRAS - 1
    /\ Top.was_any_fit
    /\ Len(positions_for_lookup) = Usable

---------------------------------------------------------------------------
(* C29. pop_and_clear is never executed on an empty stack: whenever a      *)
(* caller is about to run it, after a nested recursion() returned Continue *)
(* in the randomized search and after every nested return in the           *)
(* exhaustive one, the stack holds a placement.                            *)

---------------------------------------------------------------------------
(* C30. In the exhaustive search a call of recursion() appends one result  *)
(* to the returned collection if the free count at its entry is            *)
(* (rows * cols - blocked count) mod 4, and none otherwise, and it does so *)
(* at its entry, before it tries any shape.                                *)

C30_ExhaustiveAcceptance ==
    [][stats'.recursions = stats.recursions + 1 =>
        Len(results') = Len(results) +
            (IF how_many_free' = Usable % 4 THEN 1 ELSE 0)]_vars

---------------------------------------------------------------------------
(* C31. The exhaustive search tries the shapes in catalog order at every   *)
(* call, each once and at its first-fit anchor, so its results come in     *)
(* depth-first pre-order: every node of minimum remainder becomes the next *)
(* result, and the catalog indices of its placements are, as a sequence,   *)
(* strictly greater in lexicographic order than those of the result        *)
(* before it.                                                              *)

\* the catalog indices of a sequence of placements
CatalogIndices(st) ==
    [d \in DOMAIN st |-> CHOOSE t \in 1..TETRAS_COUNT : TETRAS[t] = st[d].tetra]

\* a comes before b in lexicographic order
LexLess(a, b) ==
    \E k \in 1..Len(b) :
        /\ k <= Len(a) + 1
        /\ \A j \in 1..(k - 1) : a[j] = b[j]
        /\ k = Len(a) + 1 \/ a[k] < b[k]

C31_ResultsInPreOrder ==
    [][stats'.results = stats.results + 1 =>
        /\ Len(results') = Len(results) + 1
        /\ SubSeq(results', 1, Len(results)) = results
        /\ results'[Len(results')].placement = stack'
        /\ results # <<>> =>
                LexLess(CatalogIndices(results[Len(results)].placement),
                        CatalogIndices(stack'))]_vars

---------------------------------------------------------------------------
(* C32. The cache is re-scanned only every CACHE_EACH_TETRAS placements: a *)
(* fill_and_push or pop_and_clear changes positions_for_lookup only when   *)
(* it brings the stack to a depth that is CACHE_EACH_TETRAS placements     *)
(* away from the depth of the last re-scan, the first of which is depth 0. *)

C32_RescanOnlyEveryFourth ==
    [][positions_for_lookup' # positions_for_lookup =>
        Len(stack') % CACHE_EACH_TETRAS = 0]_vars

(* C32, amended.  A fill_and_push or pop_and_clear that starts and ends    *)
(* below CACHE_EACH_TETRAS placements leaves positions_for_lookup          *)
(* verbatim; from CACHE_EACH_TETRAS placements on, every fill and pop, the *)
(* pop back to CACHE_EACH_TETRAS - 1 too, leaves the re-scanned list: the  *)
(* non-blocked positions without the first 16 * (depth div 4) Occupied.    *)

C32_VerbatimBelowFour ==
    [][/\ (Len(stack) < CACHE_EACH_TETRAS /\ Len(stack') < CACHE_EACH_TETRAS) =>
            positions_for_lookup' = positions_for_lookup
       /\ positions_for_lookup' = LookupOf(stack')]_vars

\* three placements and the cache still lists their cells
C32_Witness ==
    /\ Len(stack) = CACHE_EACH_TETRAS - 1
    /\ Len(positions_for_lookup) = Usable
    /\ \A d \in DOMAIN stack : \A q \in CellsOf(stack[d]) :
            \E k \in DOMAIN positions_for_lookup : positions_for_lookup[k] = q

---------------------------------------------------------------------------
(* C33. In every reachable state positions_for_lookup lists positions in   *)
(* strictly increasing row-major order, hence no position twice, and no    *)
(* position of an Unavailable cell; in the initial state it is exactly the *)
(* list of all non-blocked positions.                                      *)

\* the place of a position in the row by row walk of the grid
RowMajorIndex(p) == p.row * cfg.size.cols + p.col

---------------------------------------------------------------------------
(* C34. For every catalog shape col_shift is the number of columns the     *)
(* shape extends left of its anchor, which is the stored column of its     *)
(* leftmost cell in row 0: (0, col_shift) is one of the four offsets, the  *)
(* anchor is one of the four covered cells and the first of them in        *)
(* row-major order, and no shape fits at an anchor that is not Empty.      *)

C34_AnchorConvention ==
    \A idx \in 1..TETRAS_COUNT :
        LET tetra == TETRAS[idx]
            top   == {p \in Range(tetra.positions) : p.row = 0}
            fit   == find_any_fit_for(tetra)
        IN  /\ top # {}
            /\ \E p \in top : p.col = tetra.col_shift /\ \A q \in top : p.col <= q.col
            /\ \E p \in Range(tetra.positions) : p.col = 0
            /\ \A anchor \in DOMAIN grid :
                    LET covered == CellsOf(PlacedTetra(tetra, anchor))
                    IN  /\ anchor \in covered
                        /\ anchor.col - tetra.col_shift \in {q.col : q \in covered}
                        /\ \A q \in covered : anchor.col - tetra.col_shift <= q.col
                        /\ \A q \in covered : RowMajorIndex(anchor) <= RowMajorIndex(q)
            /\ fit # None => grid[fit[1].position] = "Empty"

\* on a grid with shapes placed, the shape that extends two columns to the
\* left of its anchor fits somewhere
C34_Witness ==
    /\ stack # <<>>
    /\ \E idx \in 1..TETRAS_COUNT :
            /\ TETRAS[idx].col_shift = 2
            /\ find_any_fit_for(TETRAS[idx]) # None
            /\ \E k \in DOMAIN positions_for_lookup :
                    /\ grid[positions_for_lookup[k]] = "Occupied"
                    /\ RowMajorIndex(positions_for_lookup[k])
                            < RowMajorIndex(find_any_fit_for(TETRAS[idx])[1].position)

---------------------------------------------------------------------------
(* C35. acceptance_threshold is computed once, in with_configuration, as   *)
(* the largest integer t with t * t <= U - (U mod 4), U being rows * cols  *)
(* minus the number of blocked cells, and never changes during the run.    *)

C35_AcceptanceThreshold ==
    /\ [](pc \notin {"config", "panicked"} =>
            /\ acceptance_threshold * acceptance_threshold <= Usable - (Usable % 4)
            /\ \A t \in 0..(cfg.size.rows * cfg.size.cols + 1) :
                    t * t <= Usable - (Usable % 4) => t <= acceptance_threshold)
    /\ [][pc # "config" => acceptance_threshold' = acceptance_threshold]_vars

\* a run on five usable cells, whose threshold is the root of four, has
\* returned with a result
C35_Witness ==
    /\ pc = "returned"
    /\ Usable % 4 = 1
    /\ acceptance_threshold = 2
    /\ results # <<>>

---------------------------------------------------------------------------
(* C36. The randomized search never rejects a best packing: whenever it    *)
(* reaches a node whose free count is the minimum remainder, U mod 4 for U *)
(* usable cells, the node is recorded as a result when its call ends, also *)
(* when U mod 4 is 2 or 3 on a small grid.                                 *)

C36_BestPackingsRecorded ==
    [][(pc = "recursion" /\ ret = "None" /\ ret' # "None"
            /\ how_many_free = Usable % 4) =>
        /\ Len(results') = Len(results) + 1
        /\ results'[Len(results')].placement = stack]_vars

---------------------------------------------------------------------------
(* C37. When run ends because the result cap was reached, the stack has    *)
(* not been unwound: at the return it is the placement sequence of the     *)
(* last recorded result, and exactly the cells of those placements are     *)
(* Occupied.                                                               *)

C37_HaltedRunKeepsStack ==
    (pc = "returned" /\ ret = "Halt") =>
        /\ Len(results) = results_limit
        /\ stack = results[Len(results)].placement
        /\ CellsIn("Occupied") = UNION {CellsOf(stack[d]) : d \in DOMAIN stack}

\* a run capped at two results has returned on its second result, which
\* holds two placements
C37_Witness ==
    /\ pc = "returned" /\ ret = "Halt"
    /\ results_limit = 2
    /\ Len(results[2].placement) = 2
    /\ how_many_free = 0

---------------------------------------------------------------------------
(* C39. For every configuration and every outcome of the sampling, run     *)
(* eventually returns, after finitely many calls of recursion(), with or   *)
(* without a result cap.                                                   *)

C39_RunReturns == <>(pc = "returned")

\* a run without a cap has returned after five calls or more
C39_Witness ==
    /\ pc = "returned"
    /\ results_limit = 0
    /\ stats.recursions >= 5

---------------------------------------------------------------------------
(* C40. After any sequence of key events that ends with Enter, the         *)
(* Configuration made by into_configuration has at least one row and one   *)
(* column and every blocked position inside its size, also when the field  *)
(* was shrunk after cells were toggled.                                    *)

C40_EditorConfigurationValid ==
    probe.state = "proceed" =>
        LET c == probe.configuration[1]
        IN  /\ c.size.rows >= 1
            /\ c.size.cols >= 1
            /\ \A p \in c.unavailable : InsideGrid(p, c.size)

====
